---- MODULE Spec2Model ----
(***************************************************************************)
(* CamelServer / WebSocketServer / CamelClient of daniel/server: the       *)
(* registration handshake, the per-connection handler task, the query      *)
(* orchestrator (handle_query) and the client's query call, as a state     *)
(* machine over connections and the frames in flight on them.              *)
(*                                                                         *)
(* One handler task runs per accepted connection (handle_client).  A step  *)
(* of the model is the code a task runs between two awaits.                *)
(***************************************************************************)
EXTENDS Naturals, Sequences, FiniteSets

\* ------------------------------------------------------------------ bounds

\* Unsolicited frames (register, query, unknown type, invalid JSON) a raw
\* client may send on one connection.
MaxSends == 2

\* Frames a raw client has in flight to the server, unread, when it sends
\* the next unsolicited one.
MaxInFlight == 1

\* query() calls one CamelClient makes.
MaxQueries == 2

\* The largest max_retries a caller passes to connect().
MaxRetryArg == 2

\* disconnect() calls one CamelClient makes.
MaxDisconnects == 2

\* The longest conversation handed to call_plm, and the longest content of
\* one of its messages.
MaxMessages == 2
MaxLen == 2

\* ------------------------------------------------------------- value sets

\* The two connections the server accepts (the websocket objects).
Conn == {"c1", "c2"}

\* "No websocket": a registry slot without an entry, a local not yet bound.
NoConn == "<no websocket>"

\* handle_client's local client_id before any register message: None.
NoneId == "<None>"

\* A client_id that is a JSON list: a value, truthy, but not hashable.
UnhashableId == "<list>"

\* client_id strings a register message may carry; "" is the empty string.
StringIds == {"a", "b", ""}

\* Every client_id value a register message may carry.
ClientIds == StringIds \cup {UnhashableId}

\* The function names handle_query looks for in the stored metadata.
FunctionNames == {"add_numbers", "get_weather"}

\* The "functions_runtime" key of a query message: absent, or a list of
\* function descriptions (modelled by the set of their names).
NoRuntime == <<>>

RuntimeValues == {NoRuntime} \cup {<<S>> : S \in (SUBSET FunctionNames) \ {{}}}

\* Python truthiness of a client_id value (handle_client lines 71 and 97).
Truthy(id) == id # NoneId /\ id # ""

\* Whether a value can be a dict key.
Hashable(id) == id # UnhashableId

\* connect(max_retries: int = 3), as query() calls it.
DefaultMaxRetries == 3

\* ---------------------------------------------------------------- frames

RegisterMsg(id) == [type |-> "register", client_id |-> id]

\* has_query is FALSE for a query message without the "query" key.
QueryMsg(q, hasq, fr) ==
    [type |-> "query", query |-> q, has_query |-> hasq, functions_runtime |-> fr]

OtherMsg == [type |-> "ping"]

InvalidJson == [type |-> "<invalid json>"]

\* A callback reply: result or error.
ReplyMsg(t, iserr, v) == [type |-> t, has_error |-> iserr, value |-> v]

RegisteredMsg(id) == [type |-> "registered", client_id |-> id]

QueryReceivedMsg == [type |-> "query_received"]

ErrorMsg(text) == [type |-> "error", message |-> text]

PlmCallMsg(q) == [type |-> "plm_call", messages |-> <<"system", q>>]

\* call_qlm line 52.
QlmCallMsg == [type |-> "qlm_call", prompt |-> "prompt", output_schema |-> "schema"]

FunctionCallMsg(fn) == [type |-> "function_call", function_name |-> fn]

\* Faulty variant of QueryResponseMsg: a type the client does not know.
QueryResponseMsg_mistyped(r) == [type |-> "response", result |-> r]

QueryResponseMsg(r) == [type |-> "query_response", result |-> r]

CallbackTypes == {"plm_call", "qlm_call", "function_call"}

\* Faulty variant of ResponseType: the plm_call branch copied for qlm_call.
ResponseType_copied(t) ==
    IF t \in {"plm_call", "qlm_call"} THEN "plm_response" ELSE "function_response"

\* The reply type paired with a callback request (spec section 6).
ResponseType(t) ==
    CASE t = "plm_call" -> "plm_response"
      [] t = "qlm_call" -> "qlm_response"
      [] OTHER -> "function_response"

\* ----------------------------------------------------------------- state

VARIABLES
    open,           \* open[c]: the transport of connection c is open
    toServer,       \* toServer[c]: frames sent by the client, not yet read
    toClient,       \* toClient[c]: frames sent by the server, not yet read
    clients,        \* WebSocketServer.clients: client_id -> websocket
    metadata,       \* CamelServer.client_function_metadata (and client_runtimes)
    spc,            \* spc[c]: where the handler task of connection c stands
    client_id,      \* client_id[c]: handle_client's local client_id
    data,           \* data[c]: the query message handle_query is handling
    websocket,      \* websocket[c]: send_to_client's local websocket
    exc,            \* exc[c]: the exception in flight in the handler task
    code,           \* code[c]: handle_query's local code
    function_results, \* function_results[c]: handle_query's local list
    qlog,           \* qlog[c]: <<type, connection>> of each frame sent for the
                    \* query that handler c handles, in order (history)
    handshakes,     \* handshakes[c]: the client_ids the server acknowledged
                    \* with "registered" on connection c (history)
    rejected,       \* rejected[c]: the handler of c answered a query before
                    \* registration or an unknown message type with an
                    \* error frame (history)
    nsent,          \* nsent[c]: unsolicited frames the raw client has sent
    cpc,            \* cpc[c]: where the CamelClient of connection c stands
    cquery,         \* cquery[c]: the argument of its query() call in progress
    capability,     \* capability[c]: how its PLM / QLM ended when last
                    \* called within the query() call in progress
    cresult,        \* cresult[c]: what its last query() call returned
    calls,          \* calls[c]: query() calls started
    returns,        \* returns[c]: query() calls that returned
    op,             \* op[c]: the public call in progress or ended last
    attempt,        \* attempt[c]: connect's loop variable
    max_retries,    \* max_retries[c]: connect's argument
    is_connected,   \* is_connected[c]: websocket_client.websocket is set
    handshake_done, \* handshake_done[c]: "registered" was received on the
                    \* websocket the client holds (history)
    cexc,           \* cexc[c]: the exception its last raising call raised
    disconnects,    \* disconnects[c]: disconnect() calls that returned
    sleeps,         \* sleeps[c]: asyncio.sleep(1) calls of its connect() call
                    \* in progress or ended last
    messages,       \* call_plm's argument: the list of Message objects
    frame,          \* the plm_call as JSON text on the wire
    decoded,        \* the list of Message objects the client handed its PLM
    mpc             \* where the plm_call of that conversation stands

serverVars == <<clients, metadata, spc, client_id, data, websocket, exc, code,
                function_results, qlog, handshakes, rejected>>

camelVars == <<cpc, cquery, capability, cresult, calls, returns, op, attempt,
               max_retries, is_connected, handshake_done, cexc, disconnects,
               sleeps>>

messageVars == <<messages, frame, decoded, mpc>>

protocolVars == <<open, toServer, toClient, serverVars, nsent, camelVars>>

vars == <<protocolVars, messageVars>>

\* ------------------------------------------------------------------ Init

HashableIds == {id \in ClientIds : Hashable(id)}

\* No frame.
NoFrame == [type |-> "<none>"]

\* The state after construction of the server and the clients.
ProtocolInit ==
    /\ open = [c \in Conn |-> TRUE]
    /\ toServer = [c \in Conn |-> <<>>]
    /\ toClient = [c \in Conn |-> <<>>]
    /\ clients = [id \in HashableIds |-> NoConn]
    /\ metadata = [id \in HashableIds |-> NoRuntime]
    /\ spc = [c \in Conn |-> "recv"]
    /\ client_id = [c \in Conn |-> NoneId]
    /\ data = [c \in Conn |-> OtherMsg]
    /\ websocket = [c \in Conn |-> NoConn]
    /\ exc = [c \in Conn |-> ""]
    /\ code = [c \in Conn |-> ""]
    /\ function_results = [c \in Conn |-> <<>>]
    /\ qlog = [c \in Conn |-> <<>>]
    /\ handshakes = [c \in Conn |-> {}]
    /\ rejected = [c \in Conn |-> FALSE]
    /\ nsent = [c \in Conn |-> 0]
    /\ cpc = [c \in Conn |-> "new"]
    /\ cquery = [c \in Conn |-> ""]
    /\ capability = [c \in Conn |-> ""]
    /\ cresult = [c \in Conn |-> <<>>]
    /\ calls = [c \in Conn |-> 0]
    /\ returns = [c \in Conn |-> 0]
    /\ op = [c \in Conn |-> ""]
    /\ attempt = [c \in Conn |-> 0]
    /\ max_retries = [c \in Conn |-> DefaultMaxRetries]
    /\ is_connected = [c \in Conn |-> FALSE]
    /\ handshake_done = [c \in Conn |-> FALSE]
    /\ cexc = [c \in Conn |-> <<>>]
    /\ disconnects = [c \in Conn |-> 0]
    /\ sleeps = [c \in Conn |-> 0]

Init ==
    /\ ProtocolInit
    /\ messages = <<>>
    /\ frame = NoFrame
    /\ decoded = <<>>
    /\ mpc = "off"

\* ------------------------------------------------- WebSocketServer (registry)

\* Faulty variant of register_client: one slot shared by every client_id, so
\* the last connection to register takes every identity.
register_client_shared(reg, ws, id) == [k \in DOMAIN reg |-> ws]

\* WebSocketServer.register_client: the registry after binding id to ws.
register_client(reg, ws, id) == [reg EXCEPT ![id] = ws]

\* WebSocketServer.unregister_client: the registry after forgetting id.
unregister_client(reg, id) ==
    IF reg[id] # NoConn THEN [reg EXCEPT ![id] = NoConn] ELSE reg

\* The pcs at which a handler task is suspended in send_to_client's recv.
WaitPcs == {"wait_plm", "wait_add_numbers", "wait_get_weather"}

\* Handler task h is suspended in a recv on connection w: in handle_client's
\* async for on its own connection, or in send_to_client on the registry's.
InRecv(h, w) ==
    \/ spc[h] = "recv" /\ h = w
    \/ spc[h] \in WaitPcs /\ websocket[h] = w

\* Faulty variant of NextRecv: the loop is left after every message.
NextRecv_leave(c) == "finally"

\* Where handler c stands after it goes back to "async for message in
\* websocket": the library refuses a second concurrent recv on a connection,
\* and the exception leaves the loop.
NextRecv(c) ==
    IF \E h \in Conn \ {c} : InRecv(h, c) THEN "finally" ELSE "recv"

\* websocket = self.clients[client_id] (lines 43 and 53).
Target(id) == clients[id]

\* Faulty variant of SendOutcome: without the membership test of lines 40
\* and 50 the lookup itself raises, a KeyError.
SendOutcome_nocheck(id) ==
    IF ~Hashable(id) THEN "TypeError: unhashable type"
    ELSE IF clients[id] = NoConn THEN "KeyError"
    ELSE IF ~open[clients[id]] THEN "ConnectionClosed"
    ELSE "ok"

\* The outcome of the lookup and send of send_to_client / send_to_client_only
\* for client_id id: the exception raised, or "ok".
SendOutcome(id) ==
    IF ~Hashable(id) THEN "TypeError: unhashable type"
    ELSE IF clients[id] = NoConn THEN "ValueError: Client not connected"
    ELSE IF ~open[Target(id)] THEN "ConnectionClosed"
    ELSE "ok"

\* The frames in flight to the clients after send_to_client_only(id, msg).
send_to_client_only(id, msg) ==
    IF SendOutcome(id) = "ok"
    THEN [toClient EXCEPT ![Target(id)] = Append(@, msg)]
    ELSE toClient

\* The query log of handler c after send_to_client_only(id, msg).
Logged(c, id, msg) ==
    IF SendOutcome(id) = "ok"
    THEN [qlog EXCEPT ![c] = Append(@, <<msg.type, Target(id)>>)]
    ELSE qlog

\* Faulty variant of CallOutcome: a transport that lets a second coroutine
\* wait for the next frame of a connection.
CallOutcome_unguarded(c, id) == SendOutcome(id)

\* The outcome of send_to_client(id, msg) up to its recv: the exception
\* raised by the lookup, the send or the start of the recv, or "ok" when the
\* task now waits for the next frame of the connection.
CallOutcome(c, id) ==
    IF SendOutcome(id) # "ok" THEN SendOutcome(id)
    ELSE IF \E h \in Conn \ {c} : InRecv(h, Target(id)) THEN "ConcurrencyError"
    ELSE "ok"

\* ---------------------------------------------- WebSocketServer.handle_client

\* handle_query's locals (and the exception variable e) go out of scope when
\* control is back in handle_client's loop.
OutOfScope(c) ==
    /\ data' = [data EXCEPT ![c] = OtherMsg]
    /\ qlog' = [qlog EXCEPT ![c] = <<>>]
    /\ websocket' = [websocket EXCEPT ![c] = NoConn]
    /\ exc' = [exc EXCEPT ![c] = ""]
    /\ code' = [code EXCEPT ![c] = ""]
    /\ function_results' = [function_results EXCEPT ![c] = <<>>]

\* A step of handler task c that touches neither the clients' side nor the
\* CamelClient state.
ServerFrame == UNCHANGED <<nsent, camelVars, messageVars>>

\* A step of handler task c that acknowledges no registration.
NoHandshake == UNCHANGED handshakes

\* A step of handler task c that rejects no message.
NoRejection == UNCHANGED rejected

\* The history of rejections after handler c answered a message with a
\* protocol error: recorded when the error frame left.
Rejects(c) == IF open[c] THEN [rejected EXCEPT ![c] = TRUE] ELSE rejected

\* websocket.send(msg) inside handle_client's inner try (lines 68, 72, 84):
\* on an open connection the frame leaves and the loop goes on; on a closed
\* one the send raises into "except Exception" (line 90).
HcSend(c, msg) ==
    IF open[c]
    THEN /\ toClient' = [toClient EXCEPT ![c] = Append(@, msg)]
         /\ spc' = [spc EXCEPT ![c] = NextRecv(c)]
         /\ exc' = exc
    ELSE /\ toClient' = toClient
         /\ spc' = [spc EXCEPT ![c] = "hc_except"]
         /\ exc' = [exc EXCEPT ![c] = "ConnectionClosed"]

\* The local client_id after a register message carrying id (line 66: bound
\* before register_client runs).
AssignClientId(c, id) == [client_id EXCEPT ![c] = id]

\* Lines 65-68: a register message.
OnRegister(c, m) ==
    /\ client_id' = AssignClientId(c, m.client_id)
    /\ IF Hashable(m.client_id)
       THEN /\ clients' = register_client(clients, c, m.client_id)
            /\ HcSend(c, RegisteredMsg(m.client_id))
            /\ handshakes' = IF open[c]
                             THEN [handshakes EXCEPT ![c] = @ \cup {m.client_id}]
                             ELSE handshakes
       ELSE /\ clients' = clients
            /\ handshakes' = handshakes
            /\ toClient' = toClient
            /\ spc' = [spc EXCEPT ![c] = "hc_except"]
            /\ exc' = [exc EXCEPT ![c] = "TypeError: unhashable type"]
    /\ UNCHANGED <<data, qlog, code, function_results, rejected>>

\* Whether handle_client hands a query message to the query handler (line 71).
Registered(c) == Truthy(client_id[c])

\* Lines 70-77: a query message.
OnQuery(c, m) ==
    /\ IF Registered(c)
       THEN /\ spc' = [spc EXCEPT ![c] = "handle_query"]
            /\ data' = [data EXCEPT ![c] = m]
            /\ qlog' = [qlog EXCEPT ![c] = <<>>]
            /\ code' = [code EXCEPT ![c] = ""]
            /\ function_results' = [function_results EXCEPT ![c] = <<>>]
            /\ UNCHANGED <<toClient, exc, rejected>>
       ELSE /\ HcSend(c, ErrorMsg("Client not registered"))
            /\ rejected' = Rejects(c)
            /\ UNCHANGED <<data, qlog, code, function_results>>
    /\ UNCHANGED <<clients, client_id, handshakes>>

\* Faulty variant of OnOther: the frame is dropped without a reply and the
\* loop is left.
OnOther_drop(c, m) ==
    /\ spc' = [spc EXCEPT ![c] = "finally"]
    /\ UNCHANGED <<toClient, exc, clients, client_id, data, qlog, code,
                   function_results, handshakes, rejected>>

\* Lines 83-89: any other message type, and a frame that is not JSON.
OnOther(c, m) ==
    /\ HcSend(c, IF m.type = "<invalid json>"
                 THEN ErrorMsg("Invalid JSON")
                 ELSE ErrorMsg("Unknown message type"))
    /\ rejected' = IF m.type = "<invalid json>" THEN rejected ELSE Rejects(c)
    /\ UNCHANGED <<clients, client_id, data, qlog, code, function_results,
                   handshakes>>

\* Lines 60-89: the handler task reads the next frame of its connection and
\* dispatches on the message type.
handle_client(c) ==
    /\ spc[c] = "recv"
    /\ toServer[c] # <<>>
    /\ toServer' = [toServer EXCEPT ![c] = Tail(@)]
    /\ LET m == Head(toServer[c]) IN
         CASE m.type = "register" -> OnRegister(c, m)
           [] m.type = "query" -> OnQuery(c, m)
           [] OTHER -> OnOther(c, m)
    /\ UNCHANGED <<open, metadata, websocket>>
    /\ ServerFrame

\* Line 60 on a closed connection with nothing left to read: the loop ends
\* (or raises ConnectionClosed into line 94) and the finally block is next.
handle_client_closed(c) ==
    /\ spc[c] = "recv"
    /\ toServer[c] = <<>>
    /\ ~open[c]
    /\ spc' = [spc EXCEPT ![c] = "finally"]
    /\ UNCHANGED <<open, toServer, toClient, clients, metadata, client_id, data,
                   websocket, exc, code, function_results, qlog>>
    /\ ServerFrame
    /\ NoHandshake
    /\ NoRejection

\* Lines 90-92: an exception of the message handling is answered with an
\* error frame; when that send raises too, the loop is left.
handle_client_except(c) ==
    /\ spc[c] = "hc_except"
    /\ IF open[c]
       THEN /\ toClient' = [toClient EXCEPT ![c] = Append(@, ErrorMsg(exc[c]))]
            /\ spc' = [spc EXCEPT ![c] = NextRecv(c)]
       ELSE /\ spc' = [spc EXCEPT ![c] = "finally"]
            /\ toClient' = toClient
    /\ OutOfScope(c)
    /\ UNCHANGED <<open, toServer, clients, metadata, client_id>>
    /\ ServerFrame
    /\ NoHandshake
    /\ NoRejection

\* The registry after the finally block of handler c (lines 96-98).
Cleanup(c) ==
    IF Truthy(client_id[c]) /\ Hashable(client_id[c])
    THEN unregister_client(clients, client_id[c])
    ELSE clients

\* Lines 94-98: the handler task ends; the server closes its connection.
handle_client_finally(c) ==
    /\ spc[c] = "finally"
    /\ clients' = Cleanup(c)
    /\ spc' = [spc EXCEPT ![c] = "done"]
    /\ open' = [open EXCEPT ![c] = FALSE]
    /\ UNCHANGED <<toServer, toClient, metadata, client_id, data, websocket,
                   exc, code, function_results, qlog>>
    /\ ServerFrame
    /\ NoHandshake
    /\ NoRejection

\* ------------------------------------------------------------- CamelServer

\* Faulty variant of HasFunction: the stored metadata is not consulted.
HasFunction_always(c, fn) == TRUE

\* Whether the metadata stored for the client of handler c names fn
\* (handle_query lines 106 and 116).
HasFunction(c, fn) ==
    /\ Hashable(client_id[c])
    /\ metadata[client_id[c]] # NoRuntime
    /\ fn \in metadata[client_id[c]][1]

CallPc(fn) == IF fn = "add_numbers" THEN "call_add_numbers" ELSE "call_get_weather"

WaitPc(fn) == IF fn = "add_numbers" THEN "wait_add_numbers" ELSE "wait_get_weather"

\* Where handle_query goes after the add_numbers block (line 116).
AfterAddNumbers(c) ==
    IF HasFunction(c, "get_weather") THEN CallPc("get_weather") ELSE "respond"

\* Where handle_query goes after call_plm returned (line 106).
AfterPlm(c) ==
    IF HasFunction(c, "add_numbers") THEN CallPc("add_numbers")
    ELSE AfterAddNumbers(c)

\* Where handle_query goes after the block of function fn.
AfterFunction(c, fn) ==
    IF fn = "add_numbers" THEN AfterAddNumbers(c) ELSE "respond"

\* Lines 78-87: read the query text, store the runtime and the function
\* metadata the message carries under the client_id.
handle_query_store(c) ==
    /\ spc[c] = "handle_query"
    /\ IF ~data[c].has_query
       THEN /\ spc' = [spc EXCEPT ![c] = "hc_except"]
            /\ exc' = [exc EXCEPT ![c] = "KeyError: query"]
            /\ metadata' = metadata
       ELSE IF data[c].functions_runtime = NoRuntime
       THEN /\ spc' = [spc EXCEPT ![c] = "hq_ack"]
            /\ UNCHANGED <<exc, metadata>>
       ELSE IF ~Hashable(client_id[c])
       THEN /\ spc' = [spc EXCEPT ![c] = "hc_except"]
            /\ exc' = [exc EXCEPT ![c] = "TypeError: unhashable type"]
            /\ metadata' = metadata
       ELSE /\ spc' = [spc EXCEPT ![c] = "hq_ack"]
            /\ metadata' = [metadata EXCEPT ![client_id[c]] = data[c].functions_runtime]
            /\ exc' = exc
    /\ UNCHANGED <<open, toServer, toClient, clients, client_id, data, websocket,
                   code, function_results, qlog>>
    /\ ServerFrame
    /\ NoHandshake
    /\ NoRejection

\* Faulty variant of handle_query_ack: the acknowledgement is left out and
\* the decision step starts at once.
handle_query_ack_omitted(c) ==
    /\ spc[c] = "hq_ack"
    /\ spc' = [spc EXCEPT ![c] = "call_plm"]
    /\ UNCHANGED <<open, toServer, toClient, clients, metadata, client_id, data,
                   websocket, exc, code, function_results, qlog>>
    /\ ServerFrame
    /\ NoHandshake
    /\ NoRejection

\* Lines 89-91: the acknowledgement, outside the try block.
handle_query_ack(c) ==
    /\ spc[c] = "hq_ack"
    /\ toClient' = send_to_client_only(client_id[c], QueryReceivedMsg)
    /\ qlog' = Logged(c, client_id[c], QueryReceivedMsg)
    /\ IF SendOutcome(client_id[c]) = "ok"
       THEN /\ spc' = [spc EXCEPT ![c] = "call_plm"]
            /\ exc' = exc
       ELSE /\ spc' = [spc EXCEPT ![c] = "hc_except"]
            /\ exc' = [exc EXCEPT ![c] = SendOutcome(client_id[c])]
    /\ UNCHANGED <<open, toServer, clients, metadata, client_id, data, websocket,
                   code, function_results>>
    /\ ServerFrame
    /\ NoHandshake
    /\ NoRejection

\* send_to_client lines 40-45 as called for callback request msg: the frame
\* leaves when lookup and send succeed; the task then waits at pc wait, or
\* carries the exception to pc failed.
CallSend(c, msg, wait, failed) ==
    /\ toClient' = send_to_client_only(client_id[c], msg)
    /\ qlog' = Logged(c, client_id[c], msg)
    /\ IF CallOutcome(c, client_id[c]) = "ok"
       THEN /\ spc' = [spc EXCEPT ![c] = wait]
            /\ websocket' = [websocket EXCEPT ![c] = Target(client_id[c])]
            /\ exc' = exc
       ELSE /\ spc' = [spc EXCEPT ![c] = failed]
            /\ websocket' = websocket
            /\ exc' = [exc EXCEPT ![c] = CallOutcome(c, client_id[c])]

\* Faulty variant of ReplyFault: the error field is not looked at.
ReplyFault_typeonly(r, expected) ==
    IF r.type = "<invalid json>" THEN "JSONDecodeError"
    ELSE IF r.type # expected THEN "ValueError: unexpected response type"
    ELSE ""

\* What the validation of a reply frame r of call_plm / call_function raises
\* (lines 42-46, 68-72), "" when it returns r's result.
ReplyFault(r, expected) ==
    IF r.type = "<invalid json>" THEN "JSONDecodeError"
    ELSE IF r.type # expected THEN "ValueError: unexpected response type"
    ELSE IF r.has_error THEN "error reply: boom"
    ELSE ""

\* Lines 95-100 and call_plm lines 38-40: the decision-step request.
call_plm(c) ==
    /\ spc[c] = "call_plm"
    /\ CallSend(c, PlmCallMsg(data[c].query), "wait_plm", "hq_except")
    /\ UNCHANGED <<open, toServer, clients, metadata, client_id, data, code,
                   function_results>>
    /\ ServerFrame
    /\ NoHandshake
    /\ NoRejection

\* Faulty variant of call_plm_reply: the recv never notices that the
\* connection closed and waits for a frame for ever.
call_plm_reply_hang(c) ==
    /\ spc[c] = "wait_plm"
    /\ LET w == websocket[c] IN
       /\ toServer[w] # <<>>
       /\ LET r == Head(toServer[w]) IN
            /\ toServer' = [toServer EXCEPT ![w] = Tail(@)]
            /\ IF ReplyFault(r, "plm_response") = ""
               THEN /\ code' = [code EXCEPT ![c] = r.value]
                    /\ spc' = [spc EXCEPT ![c] = AfterPlm(c)]
                    /\ exc' = exc
               ELSE /\ code' = code
                    /\ spc' = [spc EXCEPT ![c] = "hq_except"]
                    /\ exc' = [exc EXCEPT ![c] = ReplyFault(r, "plm_response")]
    /\ UNCHANGED <<open, toClient, clients, metadata, client_id, data, websocket,
                   function_results, qlog>>
    /\ ServerFrame
    /\ NoHandshake
    /\ NoRejection

\* send_to_client line 45 and call_plm lines 42-48: the next frame of the
\* connection is taken as the reply; a closed connection raises.
call_plm_reply(c) ==
    /\ spc[c] = "wait_plm"
    /\ LET w == websocket[c] IN
       IF toServer[w] # <<>>
       THEN LET r == Head(toServer[w]) IN
            /\ toServer' = [toServer EXCEPT ![w] = Tail(@)]
            /\ IF ReplyFault(r, "plm_response") = ""
               THEN /\ code' = [code EXCEPT ![c] = r.value]
                    /\ spc' = [spc EXCEPT ![c] = AfterPlm(c)]
                    /\ exc' = exc
               ELSE /\ code' = code
                    /\ spc' = [spc EXCEPT ![c] = "hq_except"]
                    /\ exc' = [exc EXCEPT ![c] = ReplyFault(r, "plm_response")]
       ELSE /\ ~open[w]
            /\ toServer' = toServer
            /\ code' = code
            /\ spc' = [spc EXCEPT ![c] = "hq_except"]
            /\ exc' = [exc EXCEPT ![c] = "ConnectionClosed"]
    /\ UNCHANGED <<open, toClient, clients, metadata, client_id, data, websocket,
                   function_results, qlog>>
    /\ ServerFrame
    /\ NoHandshake
    /\ NoRejection

\* Lines 106-124 and call_function lines 65-66: one function_call request;
\* a failure is caught by the block's own try and recorded.
call_function(c, fn) ==
    /\ spc[c] = CallPc(fn)
    /\ CallSend(c, FunctionCallMsg(fn), WaitPc(fn), AfterFunction(c, fn))
    /\ function_results' =
         IF CallOutcome(c, client_id[c]) = "ok" THEN function_results
         ELSE [function_results EXCEPT ![c] = Append(@, <<fn, "failed">>)]
    /\ UNCHANGED <<open, toServer, clients, metadata, client_id, data, code>>
    /\ ServerFrame
    /\ NoHandshake
    /\ NoRejection

\* send_to_client line 45 and call_function lines 68-74, then lines 110-114.
call_function_reply(c, fn) ==
    /\ spc[c] = WaitPc(fn)
    /\ LET w == websocket[c] IN
       IF toServer[w] # <<>>
       THEN LET r == Head(toServer[w]) IN
            /\ toServer' = [toServer EXCEPT ![w] = Tail(@)]
            /\ function_results' = [function_results EXCEPT ![c] =
                 Append(@, IF ReplyFault(r, "function_response") = ""
                           THEN <<fn, r.value>> ELSE <<fn, "failed">>)]
       ELSE /\ ~open[w]
            /\ toServer' = toServer
            /\ function_results' = [function_results EXCEPT ![c] =
                 Append(@, <<fn, "failed">>)]
    /\ spc' = [spc EXCEPT ![c] = AfterFunction(c, fn)]
    /\ UNCHANGED <<open, toClient, clients, metadata, client_id, data, websocket,
                   exc, code, qlog>>
    /\ ServerFrame
    /\ NoHandshake
    /\ NoRejection

\* The terminal message: lines 128-135 on success, lines 143-144 in the
\* except block.
TerminalMsg(c) ==
    IF spc[c] = "respond"
    THEN QueryResponseMsg(<<"Generated code: ", code[c]>> \o function_results[c])
    ELSE QueryResponseMsg(<<"Error: ", exc[c]>>)

\* Lines 134-135: the result is sent; a failure of the send is caught by the
\* except block of the same try.
handle_query_respond(c) ==
    /\ spc[c] = "respond"
    /\ toClient' = send_to_client_only(client_id[c], TerminalMsg(c))
    /\ qlog' = Logged(c, client_id[c], TerminalMsg(c))
    /\ IF SendOutcome(client_id[c]) = "ok"
       THEN /\ spc' = [spc EXCEPT ![c] = "hq_return"]
            /\ exc' = exc
       ELSE /\ spc' = [spc EXCEPT ![c] = "hq_except"]
            /\ exc' = [exc EXCEPT ![c] = SendOutcome(client_id[c])]
    /\ UNCHANGED <<open, toServer, clients, metadata, client_id, data, websocket,
                   code, function_results>>
    /\ ServerFrame
    /\ NoHandshake
    /\ NoRejection

\* Lines 137-144: the except block sends the error-flavoured result; when
\* that send raises, the exception leaves handle_query.
handle_query_except(c) ==
    /\ spc[c] = "hq_except"
    /\ toClient' = send_to_client_only(client_id[c], TerminalMsg(c))
    /\ qlog' = Logged(c, client_id[c], TerminalMsg(c))
    /\ IF SendOutcome(client_id[c]) = "ok"
       THEN /\ spc' = [spc EXCEPT ![c] = "hq_return"]
            /\ exc' = exc
       ELSE /\ spc' = [spc EXCEPT ![c] = "hc_except"]
            /\ exc' = [exc EXCEPT ![c] = SendOutcome(client_id[c])]
    /\ UNCHANGED <<open, toServer, clients, metadata, client_id, data, websocket,
                   code, function_results>>
    /\ ServerFrame
    /\ NoHandshake
    /\ NoRejection

\* handle_query returns (handle_client line 77 completes) and the loop reads
\* on.
handle_query_return(c) ==
    /\ spc[c] = "hq_return"
    /\ spc' = [spc EXCEPT ![c] = NextRecv(c)]
    /\ OutOfScope(c)
    /\ UNCHANGED <<open, toServer, toClient, clients, metadata, client_id>>
    /\ ServerFrame
    /\ NoHandshake
    /\ NoRejection

\* One step of the handler task of connection c.
ServerStep(c) ==
    \/ handle_client(c)
    \/ handle_client_closed(c)
    \/ handle_client_except(c)
    \/ handle_client_finally(c)
    \/ handle_query_store(c)
    \/ handle_query_ack(c)
    \/ call_plm(c)
    \/ call_plm_reply(c)
    \/ \E fn \in FunctionNames : call_function(c, fn)
    \/ \E fn \in FunctionNames : call_function_reply(c, fn)
    \/ handle_query_respond(c)
    \/ handle_query_except(c)
    \/ handle_query_return(c)

\* ------------------------------------------------------------ raw clients
\* A client that speaks the wire protocol directly (as test_websocket.py
\* does): it may send any frame at any time and answer callbacks at will.

\* The query text a raw client sends.
RawQuery == "2+2?"

\* The unsolicited frames of a raw client: every message shape
\* handle_client and handle_query tell apart.
RawFrames ==
    {RegisterMsg(id) : id \in {"a", "", UnhashableId}}
    \cup {QueryMsg(RawQuery, TRUE, fr) : fr \in RuntimeValues}
    \cup {QueryMsg(RawQuery, FALSE, NoRuntime), OtherMsg, InvalidJson}

\* The registrations of a second connection: under the first connection's
\* identity, or under another.
RegisterFrames == {RegisterMsg(id) : id \in {"a", "b"}}

\* The frames of a well-formed client: register, and a query without
\* function metadata.
PlainFrames == RegisterFrames \cup {QueryMsg(RawQuery, TRUE, NoRuntime)}

\* Spec: the client of the first connection sends every message shape, while
\* a second connection registers and closes.
FramesOf(c) == IF c = "c1" THEN RawFrames ELSE RegisterFrames

\* The frames a raw client may answer a callback request of type t with.
RawReplies(t) ==
    {ReplyMsg(ResponseType(t), FALSE, "4"), ReplyMsg(ResponseType(t), TRUE, "boom"),
     ReplyMsg("qlm_response", FALSE, "4"), OtherMsg}

ClientFrame == UNCHANGED <<serverVars, camelVars, messageVars>>

\* The raw client has read what the server sent so far.
Attentive(c) == toClient[c] = <<>>

RawSend(c, frames) ==
    /\ open[c]
    /\ Attentive(c)
    /\ nsent[c] < MaxSends
    /\ Len(toServer[c]) < MaxInFlight
    /\ \E f \in frames : toServer' = [toServer EXCEPT ![c] = Append(@, f)]
    /\ nsent' = [nsent EXCEPT ![c] = @ + 1]
    /\ UNCHANGED <<open, toClient>>
    /\ ClientFrame

\* The raw client reads the next frame and, when it is a callback request,
\* answers it.
RawRead(c) ==
    /\ open[c]
    /\ toClient[c] # <<>>
    /\ toClient' = [toClient EXCEPT ![c] = Tail(@)]
    /\ LET m == Head(toClient[c]) IN
       IF m.type \in CallbackTypes
       THEN \E r \in RawReplies(m.type) :
              toServer' = [toServer EXCEPT ![c] = Append(@, r)]
       ELSE toServer' = toServer
    /\ UNCHANGED <<open, nsent>>
    /\ ClientFrame

\* The client closes the connection, or the transport fails.
RawClose(c) ==
    /\ open[c]
    /\ open' = [open EXCEPT ![c] = FALSE]
    /\ toClient' = [toClient EXCEPT ![c] = <<>>]
    /\ UNCHANGED <<toServer, nsent>>
    /\ ClientFrame

Next ==
    \E c \in Conn :
        \/ ServerStep(c)
        \/ RawSend(c, FramesOf(c))
        \/ RawRead(c)
        \/ RawClose(c)

Spec == Init /\ [][Next]_vars

\* DuoSpec: two well-formed clients, each free to register either identity
\* and to query.  No query carries function metadata, so HasFunction is
\* never true and handle_query's function blocks are skipped.
DuoServerStep(c) ==
    \/ handle_client(c)
    \/ handle_client_closed(c)
    \/ handle_client_except(c)
    \/ handle_client_finally(c)
    \/ handle_query_store(c)
    \/ handle_query_ack(c)
    \/ call_plm(c)
    \/ call_plm_reply(c)
    \/ handle_query_respond(c)
    \/ handle_query_except(c)
    \/ handle_query_return(c)

DuoNext ==
    \E c \in Conn :
        \/ DuoServerStep(c)
        \/ RawSend(c, PlainFrames)
        \/ RawRead(c)
        \/ RawClose(c)

DuoSpec == Init /\ [][DuoNext]_vars

\* HandoverSpec: the client of the first connection registers and queries
\* with function metadata, the client of the second one registers, under
\* the same identity or another, and queries without; either may close.
MetadataFrames ==
    {RegisterMsg("a")}
    \cup {QueryMsg(RawQuery, TRUE, fr) : fr \in RuntimeValues \ {NoRuntime}}

HandoverNext ==
    \/ \E c \in Conn : ServerStep(c) \/ RawRead(c) \/ RawClose(c)
    \/ RawSend("c1", MetadataFrames)
    \/ RawSend("c2", PlainFrames)

HandoverSpec == Init /\ [][HandoverNext]_vars

\* ------------------------------------------------------------ CamelClient
\* One CamelClient per connection slot, with a PLM and a QLM that return or
\* raise.  A slot carries one connection at a time: the client's next
\* transport connect takes the slot once the handler task of the previous
\* connection has ended.

\* self.client_id = str(uuid.uuid4()): each client object has its own.
CamelId(c) == IF c = "c1" THEN "a" ELSE "b"

\* The query strings a caller passes to query(); "" is the empty string.
Queries == {"", "2+2?"}

\* What the PLM or QLM does when called: it returns a value or raises.
Outcomes == {"returned", "raised"}

\* A capability may also return a value json.dumps rejects.
AnyOutcomes == Outcomes \cup {"unserializable"}

\* What the transport connect of one attempt does: the server accepts the
\* connection, or the connect raises.
ConnectOutcomes == {"accepted", "refused"}

\* The max_retries arguments a caller passes to connect().
RetryArgs == 0..MaxRetryArg

\* query()'s value when _handle_server_callbacks returned nothing.
NoResponse == <<"No response received">>

\* Line 118: result or "No response received".
QueryResult(result) == IF result = <<>> THEN NoResponse ELSE result

\* A public call of client c (query or connect) is in progress.
InCall(c) == cpc[c] \in {"connecting", "wait_registered", "wait_ack", "loop"}

CamelFrame == UNCHANGED <<serverVars, nsent, disconnects, messageVars>>

\* websocket.send(json.dumps(msg)) by the client: the frames in flight to
\* the server afterwards (a closed connection raises instead).
ClientSend(c, msg) == [toServer EXCEPT ![c] = Append(@, msg)]

\* The client's query message (line 111: no functions_runtime key).
CamelQueryMsg(q) == QueryMsg(q, TRUE, NoRuntime)

\* The call in progress ends by raising the exception named e.
CamelRaise(c, e) ==
    /\ cpc' = [cpc EXCEPT ![c] = "raised"]
    /\ cexc' = [cexc EXCEPT ![c] = <<e>>]

\* query(q), lines 107-112 up to the first await that waits: connect when
\* not connected, else send the query.
CamelQuery(c) ==
    /\ cpc[c] \in {"new", "idle", "raised"}
    /\ calls[c] < MaxQueries
    /\ \E q \in Queries :
         /\ cquery' = [cquery EXCEPT ![c] = q]
         /\ IF ~is_connected[c]
            THEN /\ cpc' = [cpc EXCEPT ![c] = "connecting"]
                 /\ UNCHANGED <<toServer, cexc>>
            ELSE IF ~open[c]
            THEN /\ CamelRaise(c, "ConnectionClosed")
                 /\ toServer' = toServer
            ELSE /\ cpc' = [cpc EXCEPT ![c] = "wait_ack"]
                 /\ toServer' = ClientSend(c, CamelQueryMsg(q))
                 /\ cexc' = cexc
    /\ calls' = [calls EXCEPT ![c] = @ + 1]
    /\ capability' = [capability EXCEPT ![c] = ""]
    /\ op' = [op EXCEPT ![c] = "query"]
    /\ attempt' = [attempt EXCEPT ![c] = 0]
    /\ sleeps' = [sleeps EXCEPT ![c] = 0]
    /\ max_retries' = [max_retries EXCEPT ![c] = DefaultMaxRetries]
    /\ UNCHANGED <<open, toClient, cresult, returns, is_connected, handshake_done>>
    /\ CamelFrame

\* A caller calls connect(max_retries) itself.
CamelConnect(c) ==
    /\ cpc[c] \in {"new", "idle", "raised"}
    /\ \E n \in RetryArgs : max_retries' = [max_retries EXCEPT ![c] = n]
    /\ cpc' = [cpc EXCEPT ![c] = "connecting"]
    /\ op' = [op EXCEPT ![c] = "connect"]
    /\ attempt' = [attempt EXCEPT ![c] = 0]
    /\ sleeps' = [sleeps EXCEPT ![c] = 0]
    /\ UNCHANGED <<open, toServer, toClient, cquery, capability, cresult, calls,
                   returns, is_connected, handshake_done, cexc>>
    /\ CamelFrame

\* Faulty variant of CamelDisconnect: close() is called on whatever the
\* client holds, which raises when it holds no websocket.
CamelDisconnect_unguarded(c) ==
    /\ ~InCall(c)
    /\ disconnects[c] < MaxDisconnects
    /\ IF is_connected[c]
       THEN /\ open' = [open EXCEPT ![c] = FALSE]
            /\ cpc' = [cpc EXCEPT ![c] = "idle"]
            /\ cexc' = cexc
       ELSE /\ CamelRaise(c, "AttributeError")
            /\ open' = open
    /\ is_connected' = [is_connected EXCEPT ![c] = FALSE]
    /\ handshake_done' = [handshake_done EXCEPT ![c] = FALSE]
    /\ disconnects' = [disconnects EXCEPT ![c] = @ + 1]
    /\ op' = [op EXCEPT ![c] = "disconnect"]
    /\ UNCHANGED <<toServer, toClient, cquery, capability, cresult, calls,
                   returns, attempt, sleeps, max_retries>>
    /\ UNCHANGED <<serverVars, nsent, messageVars>>

\* disconnect(), camel_client.py lines 56-58 and websocket_wrapper.py lines
\* 138-142: when the client holds a websocket, close it and drop it; else
\* nothing.  A client on which nothing else was called stays new.
CamelDisconnect(c) ==
    /\ ~InCall(c)
    /\ disconnects[c] < MaxDisconnects
    /\ open' = [open EXCEPT ![c] = IF is_connected[c] THEN FALSE ELSE @]
    /\ is_connected' = [is_connected EXCEPT ![c] = FALSE]
    /\ handshake_done' = [handshake_done EXCEPT ![c] = FALSE]
    /\ cpc' = [cpc EXCEPT ![c] = IF @ = "new" THEN "new" ELSE "idle"]
    /\ disconnects' = [disconnects EXCEPT ![c] = @ + 1]
    /\ op' = [op EXCEPT ![c] = "disconnect"]
    /\ UNCHANGED <<toServer, toClient, cquery, capability, cresult, calls,
                   returns, attempt, sleeps, max_retries, cexc>>
    /\ UNCHANGED <<serverVars, nsent, messageVars>>

\* Faulty variant of AttemptFailed: the backoff comes before the test for
\* the last attempt.
AttemptFailed_sleepfirst(c, e) ==
    /\ sleeps' = [sleeps EXCEPT ![c] = @ + 1]
    /\ IF attempt[c] = max_retries[c] - 1
       THEN /\ CamelRaise(c, e)
            /\ attempt' = attempt
       ELSE /\ cpc' = [cpc EXCEPT ![c] = "connecting"]
            /\ attempt' = [attempt EXCEPT ![c] = @ + 1]
            /\ cexc' = cexc

\* connect lines 50-54: an attempt failed with e; the last one re-raises.
AttemptFailed(c, e) ==
    IF attempt[c] = max_retries[c] - 1
    THEN /\ CamelRaise(c, e)
         /\ UNCHANGED <<attempt, sleeps>>
    ELSE /\ cpc' = [cpc EXCEPT ![c] = "connecting"]
         /\ attempt' = [attempt EXCEPT ![c] = @ + 1]
         /\ sleeps' = [sleeps EXCEPT ![c] = @ + 1]
         /\ cexc' = cexc

\* connect() returned to its caller: query() goes on to send the query
\* (lines 111-112), a caller of connect() has its call returned.
Connected(c) ==
    IF op[c] = "connect"
    THEN /\ cpc' = [cpc EXCEPT ![c] = "idle"]
         /\ UNCHANGED <<toServer, cexc>>
    ELSE IF is_connected'[c] /\ open[c]
    THEN /\ cpc' = [cpc EXCEPT ![c] = "wait_ack"]
         /\ toServer' = ClientSend(c, CamelQueryMsg(cquery[c]))
         /\ cexc' = cexc
    ELSE /\ CamelRaise(c, IF is_connected'[c] THEN "ConnectionClosed"
                          ELSE "ValueError: Not connected to server")
         /\ toServer' = toServer

\* The slot of connection c is free for a new connection: no handler task
\* runs on it and the registry holds no websocket of it.
SlotFree(c) ==
    /\ \/ spc[c] = "done"
       \/ spc[c] = "recv" /\ client_id[c] = NoneId /\ toServer[c] = <<>>
    /\ \A id \in HashableIds : clients[id] # c
    /\ \A h \in Conn : websocket[h] # c

\* serve() starts handle_client for the connection accepted on slot c.
Accept(c) ==
    /\ SlotFree(c)
    /\ spc' = [spc EXCEPT ![c] = "recv"]
    /\ client_id' = [client_id EXCEPT ![c] = NoneId]
    /\ handshakes' = [handshakes EXCEPT ![c] = {}]
    /\ rejected' = [rejected EXCEPT ![c] = FALSE]
    /\ OutOfScope(c)
    /\ UNCHANGED <<clients, metadata>>

\* connect lines 46-48 and WebSocketClient.connect lines 119-125: one pass of
\* the retry loop up to the recv.  The loop of range(max_retries) ends at
\* once when max_retries is not positive.
CamelAttempt(c, outcomes) ==
    /\ cpc[c] = "connecting"
    /\ IF max_retries[c] <= 0
       THEN /\ is_connected' = is_connected
            /\ Connected(c)
            /\ UNCHANGED <<open, toClient, attempt, sleeps, handshake_done>>
            /\ UNCHANGED serverVars
       ELSE \E o \in outcomes :
              IF o = "accepted"
              THEN /\ Accept(c)
                   /\ open' = [open EXCEPT ![c] = TRUE]
                   /\ toClient' = [toClient EXCEPT ![c] = <<>>]
                   /\ toServer' = [toServer EXCEPT ![c] = <<RegisterMsg(CamelId(c))>>]
                   /\ is_connected' = [is_connected EXCEPT ![c] = TRUE]
                   /\ handshake_done' = [handshake_done EXCEPT ![c] = FALSE]
                   /\ cpc' = [cpc EXCEPT ![c] = "wait_registered"]
                   /\ UNCHANGED <<attempt, sleeps, cexc>>
              ELSE /\ AttemptFailed(c, "ConnectionRefusedError")
                   /\ UNCHANGED <<open, toServer, toClient, is_connected,
                                  handshake_done>>
                   /\ UNCHANGED serverVars
    /\ UNCHANGED <<cquery, capability, cresult, calls, returns, op, max_retries,
                   nsent, disconnects, messageVars>>

\* What WebSocketClient.connect lines 127-130 raise for the reply frame r,
\* "" when r completes the handshake.
RegisterFault(r) ==
    IF r.type = "<invalid json>" THEN "JSONDecodeError"
    ELSE IF r.type # "registered" THEN "ValueError: Failed to register"
    ELSE ""

\* WebSocketClient.connect lines 127-136 and connect lines 48-54: the reply
\* to register is read and checked.
CamelRegistered(c) ==
    /\ cpc[c] = "wait_registered"
    /\ IF toClient[c] # <<>>
       THEN /\ toClient' = [toClient EXCEPT ![c] = Tail(@)]
            /\ IF RegisterFault(Head(toClient[c])) = ""
               THEN /\ handshake_done' = [handshake_done EXCEPT ![c] = TRUE]
                    /\ is_connected' = is_connected
                    /\ Connected(c)
                    /\ UNCHANGED <<attempt, sleeps>>
               ELSE /\ AttemptFailed(c, RegisterFault(Head(toClient[c])))
                    /\ UNCHANGED <<toServer, handshake_done, is_connected>>
       ELSE /\ ~open[c]
            /\ AttemptFailed(c, "ConnectionClosed")
            /\ UNCHANGED <<toClient, toServer, handshake_done, is_connected>>
    /\ UNCHANGED <<open, cquery, capability, cresult, calls, returns, op,
                   max_retries>>
    /\ CamelFrame

\* Faulty variant of AckFault: the type of the reply is not looked at.
AckFault_unchecked(r) ==
    IF r.type = "<invalid json>" THEN "JSONDecodeError" ELSE ""

\* What send_message line 151 and query lines 113-114 raise for the frame r
\* that follows the query, "" when r is the acknowledgement.
AckFault(r) ==
    IF r.type = "<invalid json>" THEN "JSONDecodeError"
    ELSE IF r.type # "query_received" THEN "Exception: Unexpected server response"
    ELSE ""

\* send_message line 150 and query lines 113-114: the first frame after the
\* query must be query_received.
CamelAck(c) ==
    /\ cpc[c] = "wait_ack"
    /\ IF toClient[c] # <<>>
       THEN /\ toClient' = [toClient EXCEPT ![c] = Tail(@)]
            /\ IF AckFault(Head(toClient[c])) = ""
               THEN cpc' = [cpc EXCEPT ![c] = "loop"] /\ cexc' = cexc
               ELSE CamelRaise(c, AckFault(Head(toClient[c])))
       ELSE /\ ~open[c]
            /\ CamelRaise(c, "ConnectionClosed")
            /\ toClient' = toClient
    /\ UNCHANGED <<open, toServer, cquery, capability, cresult, calls, returns,
                   op, attempt, sleeps, max_retries, is_connected, handshake_done>>
    /\ CamelFrame

\* A conversation with an entry Message.from_dict cannot read.
BadMessages == <<"<entry without role>">>

\* What lines 67-68 and 79-80 raise for the callback request m before the
\* capability is called, "" when the request is read.
RequestFault(m) ==
    IF m.type = "plm_call"
    THEN IF "messages" \notin DOMAIN m THEN "KeyError: messages"
         ELSE IF m.messages = BadMessages THEN "KeyError: role"
         ELSE ""
    ELSE IF "prompt" \notin DOMAIN m THEN "KeyError: prompt"
    ELSE IF "output_schema" \notin DOMAIN m THEN "KeyError: output_schema"
    ELSE ""

\* Faulty variant of CallbackResponse: the exception text is sent as the
\* result.
CallbackResponse_asresult(t, o) ==
    ReplyMsg(ResponseType(t), FALSE, IF o = "returned" THEN "4" ELSE "boom")

\* Lines 70-75 and 81-86: the reply to a callback request of type t when the
\* capability ended as outcome o.
CallbackResponse(t, o) ==
    IF o = "returned"
    THEN ReplyMsg(ResponseType(t), FALSE, "4")
    ELSE ReplyMsg(ResponseType(t), TRUE, "boom")

\* Lines 65-86: one plm_call or qlm_call request m.
ServeCallback(c, m, outcomes) ==
    IF RequestFault(m) # ""
    THEN /\ CamelRaise(c, RequestFault(m))
         /\ UNCHANGED <<toServer, capability>>
    ELSE \E o \in outcomes :
           /\ capability' = [capability EXCEPT ![c] = o]
           /\ IF o = "unserializable"
              THEN /\ CamelRaise(c, "TypeError: not JSON serializable")
                   /\ toServer' = toServer
              ELSE IF open[c]
              THEN /\ toServer' = ClientSend(c, CallbackResponse(m.type, o))
                   /\ UNCHANGED <<cpc, cexc>>
              ELSE /\ CamelRaise(c, "ConnectionClosed")
                   /\ toServer' = toServer

\* Faulty variant of ServerError: the server's text is dropped.
ServerError_generic(m) == <<"Server error">>

\* Line 93: the exception raised for the error message m.
ServerError(m) == <<"Server error: ", m.message>>

\* query line 118 returns result.
CamelReturn(c, result) ==
    /\ cresult' = [cresult EXCEPT ![c] = QueryResult(result)]
    /\ returns' = [returns EXCEPT ![c] = @ + 1]
    /\ cpc' = [cpc EXCEPT ![c] = "idle"]

\* _handle_server_callbacks lines 63-95 for one frame of
\* listen_for_messages, and query line 118.  The generator ends on a closed
\* connection and on a frame json.loads rejects.
CamelCallbacks(c, outcomes) ==
    /\ cpc[c] = "loop"
    /\ IF toClient[c] # <<>>
       THEN LET m == Head(toClient[c]) IN
            /\ toClient' = [toClient EXCEPT ![c] = Tail(@)]
            /\ IF m.type = "<invalid json>"
               THEN /\ CamelReturn(c, <<>>)
                    /\ UNCHANGED <<toServer, capability, cexc>>
               ELSE IF m.type \in {"plm_call", "qlm_call"}
               THEN /\ ServeCallback(c, m, outcomes)
                    /\ UNCHANGED <<cresult, returns>>
               ELSE IF m.type = "query_response"
               THEN /\ CamelReturn(c, m.result)
                    /\ UNCHANGED <<toServer, capability, cexc>>
               ELSE IF m.type = "error"
               THEN /\ cpc' = [cpc EXCEPT ![c] = "raised"]
                    /\ cexc' = [cexc EXCEPT ![c] = ServerError(m)]
                    /\ UNCHANGED <<toServer, capability, cresult, returns>>
               ELSE UNCHANGED <<cpc, toServer, capability, cresult, returns, cexc>>
       ELSE /\ ~open[c]
            /\ CamelReturn(c, <<>>)
            /\ UNCHANGED <<toClient, toServer, capability, cexc>>
    /\ UNCHANGED <<open, cquery, calls, op, attempt, sleeps, max_retries, is_connected,
                   handshake_done>>
    /\ CamelFrame

\* The receive loop of a client whose capabilities return strings or raise.
CamelLoop(c) == CamelCallbacks(c, Outcomes)

\* One step of the CamelClient of connection c after a connection attempt.
CamelStep(c) ==
    \/ CamelRegistered(c)
    \/ CamelAck(c)
    \/ CamelLoop(c)

\* The transport of connection c fails, or the peer goes away.
TransportClose(c) ==
    /\ open[c]
    /\ open' = [open EXCEPT ![c] = FALSE]
    /\ UNCHANGED <<toServer, toClient, serverVars, nsent, camelVars, messageVars>>

\* CamelSpec: two CamelClients at one CamelServer, over connections that may
\* fail at any time.
CamelNext ==
    \E c \in Conn :
        \/ DuoServerStep(c)
        \/ CamelQuery(c)
        \/ CamelAttempt(c, ConnectOutcomes)
        \/ CamelStep(c)
        \/ TransportClose(c)

CamelSpec == Init /\ [][CamelNext]_vars

\* LiveSpec: the same clients over connections that stay open.  The handler
\* tasks run while the connection lasts, so their loop never ends.
LiveServerStep(c) ==
    \/ handle_client(c)
    \/ handle_query_store(c)
    \/ handle_query_ack(c)
    \/ call_plm(c)
    \/ call_plm_reply(c)
    \/ handle_query_respond(c)
    \/ handle_query_return(c)
    \/ handle_query_except(c)

\* The server is up: every transport connect is accepted.
LiveAttempt(c) == CamelAttempt(c, {"accepted"})

LiveNext ==
    \E c \in Conn :
        \/ LiveServerStep(c)
        \/ CamelQuery(c)
        \/ LiveAttempt(c)
        \/ CamelStep(c)

\* The event loops run every task that can run; the capabilities return.
LiveSpec ==
    /\ Init
    /\ [][LiveNext]_vars
    /\ \A c \in Conn :
         WF_vars(LiveServerStep(c)) /\ WF_vars(LiveAttempt(c)) /\ WF_vars(CamelStep(c))

\* RepeatSpec: the CamelClient of the first connection queries again and
\* again on the connection it made, while a second connection registers,
\* under the same identity or another, and closes.
RepeatNext ==
    \/ \E c \in Conn : DuoServerStep(c)
    \/ CamelQuery("c1")
    \/ LiveAttempt("c1")
    \/ CamelStep("c1")
    \/ RawSend("c2", RegisterFrames)
    \/ RawRead("c2")
    \/ RawClose("c2")

RepeatSpec == Init /\ [][RepeatNext]_vars

\* FairSpec: Spec with every handler task run whenever it can run.
FairSpec == Spec /\ \A c \in Conn : WF_vars(ServerStep(c))

\* ------------------------------------------------- CamelClient and any peer
\* The client of the first connection against a peer that may send any frame
\* of the protocol, in any order.

\* The capability of every client call has any outcome.
ClientLoop(c) == CamelCallbacks(c, AnyOutcomes)

\* The result of a successful terminal message.
PeerResult == <<"Generated code: ", "4">>

\* The frames a peer sends: every message of the wire protocol, the callback
\* requests also with a key missing or a malformed conversation, the
\* terminal message also with an empty result, and bytes that are not JSON.
PeerFrames ==
    {RegisteredMsg("a"), QueryReceivedMsg, ErrorMsg("Client not registered"),
     PlmCallMsg(RawQuery), [type |-> "plm_call"],
     [type |-> "plm_call", messages |-> BadMessages],
     QlmCallMsg, [type |-> "qlm_call", output_schema |-> "schema"],
     [type |-> "qlm_call", prompt |-> "prompt"],
     FunctionCallMsg("add_numbers"),
     QueryResponseMsg(PeerResult), QueryResponseMsg(<<>>), InvalidJson}

\* The peer, having read what the client sent, sends a frame on the open
\* connection.
PeerSend(c) ==
    /\ open[c]
    /\ is_connected[c]
    /\ toServer[c] = <<>>
    /\ Len(toClient[c]) < MaxInFlight
    /\ \E m \in PeerFrames : toClient' = [toClient EXCEPT ![c] = Append(@, m)]
    /\ UNCHANGED <<open, toServer, serverVars, nsent, camelVars, messageVars>>

\* The peer reads the next frame of the client.
PeerRead(c) ==
    /\ toServer[c] # <<>>
    /\ toServer' = [toServer EXCEPT ![c] = Tail(@)]
    /\ UNCHANGED <<open, toClient, serverVars, nsent, camelVars, messageVars>>

ClientNext ==
    \/ CamelQuery("c1")
    \/ CamelConnect("c1")
    \/ CamelDisconnect("c1")
    \/ CamelAttempt("c1", ConnectOutcomes)
    \/ CamelRegistered("c1")
    \/ CamelAck("c1")
    \/ ClientLoop("c1")
    \/ PeerSend("c1")
    \/ PeerRead("c1")
    \/ TransportClose("c1")

ClientSpec == Init /\ [][ClientNext]_vars

\* ------------------------------------------------- Message and its encoding
\* A string is a sequence of characters; a Message object is the pair of its
\* attributes <<role, content>>.

\* Characters of a content: a plain one, the quote and the backslash.
Chars == {"a", "\"", "\\"}

\* The contents of at most MaxLen characters.
Contents == UNION {[1..n -> Chars] : n \in 0..MaxLen}

\* The roles of a conversation (base_models.py line 13).
Roles == {<<"system">>, <<"user">>, <<"assistant">>}

\* Message(role, content), lines 12-14.
Message(role, content) == <<role, content>>

\* The conversations of at most MaxMessages messages.
Conversations == UNION {[1..n -> Roles \X Contents] : n \in 0..MaxMessages}

\* Message.to_dict, lines 16-17.
to_dict(m) == [role |-> m[1], content |-> m[2]]

\* Faulty variant of from_dict: the two keys are read into the wrong
\* attributes.
from_dict_swapped(d) == Message(d.content, d.role)

\* Message.from_dict, lines 19-21.
from_dict(d) == Message(d.role, d.content)

\* json.dumps of a string: the quote and the backslash are written with a
\* backslash before them.
RECURSIVE Escape(_)
Escape(str) ==
    IF str = <<>> THEN <<>>
    ELSE (IF Head(str) \in {"\"", "\\"} THEN <<"\\", Head(str)>> ELSE <<Head(str)>>)
            \o Escape(Tail(str))

\* json.loads of the text of a string: a backslash stands for the character
\* after it; a backslash at the end is not a string.
RECURSIVE Unescape(_)
Unescape(text) ==
    IF text = <<>> THEN <<>>
    ELSE IF Head(text) # "\\" THEN <<Head(text)>> \o Unescape(Tail(text))
    ELSE IF Len(text) < 2 THEN <<"<invalid json>">>
    ELSE <<text[2]>> \o Unescape(SubSeq(text, 3, Len(text)))

\* json.dumps of the plm_call message of call_plm lines 38-39 (in
\* send_to_client): the text of every string, in the order of the list.
dumps(message_dicts) ==
    [type |-> "plm_call",
     messages |-> [i \in DOMAIN message_dicts |->
                     [role |-> Escape(message_dicts[i].role),
                      content |-> Escape(message_dicts[i].content)]]]

\* json.loads of that text in listen_for_messages: data["messages"].
loads(text) ==
    [i \in DOMAIN text.messages |->
       [role |-> Unescape(text.messages[i].role),
        content |-> Unescape(text.messages[i].content)]]

\* call_plm lines 38-40: the conversation is encoded and sent.
Encode ==
    /\ mpc = "call_plm"
    /\ frame' = dumps([i \in DOMAIN messages |-> to_dict(messages[i])])
    /\ mpc' = "sent"
    /\ UNCHANGED <<messages, decoded, protocolVars>>

\* _handle_server_callbacks lines 66-69: the client decodes the plm_call and
\* builds the Message list for its PLM.
Decode ==
    /\ mpc = "sent"
    /\ LET message_dicts == loads(frame)
       IN decoded' = [i \in DOMAIN message_dicts |-> from_dict(message_dicts[i])]
    /\ mpc' = "decoded"
    /\ UNCHANGED <<messages, frame, protocolVars>>

\* MessageSpec: one plm_call for every conversation.
MessageInit ==
    /\ ProtocolInit
    /\ messages \in Conversations
    /\ frame = NoFrame
    /\ decoded = <<>>
    /\ mpc = "call_plm"

MessageNext == Encode \/ Decode

MessageSpec == MessageInit /\ [][MessageNext]_vars

\* MixedSpec: the CamelClient of the first connection at a CamelServer where
\* a second, raw connection registers the same identity and declares
\* functions for it.  The connections stay open.
MixedServerStep(c) ==
    \/ LiveServerStep(c)
    \/ \E fn \in FunctionNames : call_function(c, fn) \/ call_function_reply(c, fn)

MixedNext ==
    \/ \E c \in Conn : MixedServerStep(c)
    \/ CamelQuery("c1")
    \/ LiveAttempt("c1")
    \/ CamelStep("c1")
    \/ RawSend("c2", MetadataFrames)
    \/ RawRead("c2")

MixedSpec == Init /\ [][MixedNext]_vars

\* AnySpec: two CamelClients whose capabilities have any outcome, over
\* connections that stay open.
AnyNext ==
    \E c \in Conn :
        \/ LiveServerStep(c)
        \/ CamelQuery(c)
        \/ LiveAttempt(c)
        \/ CamelRegistered(c)
        \/ CamelAck(c)
        \/ ClientLoop(c)

AnySpec == Init /\ [][AnyNext]_vars

\* ----------------------------------------------------------------- claims

\* How many frames of type t the query log q holds.
CountType(q, t) == Cardinality({i \in DOMAIN q : q[i][1] = t})

\* How many frames of type t the query log q holds that went to connection w.
CountTo(q, t, w) == Cardinality({i \in DOMAIN q : q[i] = <<t, w>>})

\* handle_query of handler c has sent query_received for the current query.
Acknowledged(c) == CountType(qlog[c], "query_received") > 0

\* handle_query of handler c has ended: it returned, or an exception left it.
QueryEnded(c) == spc[c] \in {"hq_return", "hc_except"}

\* C2: for every query acknowledged with query_received, handle_query sends
\* exactly one query_response to the client that sent it, never two, and
\* never zero while the connection stays open.
C2_ExactlyOneTerminal ==
    \A c \in Conn :
        (Acknowledged(c) /\ QueryEnded(c) /\ open[c])
            => /\ CountType(qlog[c], "query_response") = 1
               /\ CountTo(qlog[c], "query_response", c) = 1

\* C3: for every query, query_received is sent before any plm_call, qlm_call
\* or function_call that belongs to that query.
C3_AckBeforeCallbacks ==
    \A c \in Conn : \A i \in DOMAIN qlog[c] :
        qlog[c][i][1] \in CallbackTypes
            => \E j \in 1..(i - 1) : qlog[c][j][1] = "query_received"

\* A state in which a query was acknowledged and both kinds of callback
\* requests were issued for it.
C3_Witness ==
    \E c \in Conn :
        /\ CountType(qlog[c], "plm_call") > 0
        /\ CountType(qlog[c], "function_call") > 0

\* Handler c reads the frame m of a connection on which no registration was
\* acknowledged yet, and m is not a register message.
UnregisteredRead(c) ==
    /\ spc[c] = "recv"
    /\ toServer[c] # <<>>
    /\ toServer'[c] = Tail(toServer[c])
    /\ Head(toServer[c]).type # "register"
    /\ handshakes[c] = {}
    /\ open[c]

\* C4: a connection that has not completed registration and sends any
\* message other than register receives an error reply, is not added to the
\* registry, and its query is not passed to the query handler.
C4_UnregisteredRejected ==
    [][\A c \in Conn :
         UnregisteredRead(c)
            => /\ Len(toClient'[c]) = Len(toClient[c]) + 1
               /\ toClient'[c][Len(toClient'[c])].type = "error"
               /\ clients' = clients
               /\ spc'[c] # "handle_query"]_vars

\* The connections are registered under different client_ids: no identity
\* was bound to both.
DistinctIdentities ==
    \A c, d \in Conn : c # d =>
        /\ handshakes[c] \cap handshakes[d] = {}
        /\ client_id[c] \notin handshakes[d]

\* C5: when two clients registered under different client_ids run queries
\* concurrently, every frame produced for a client's query is sent on that
\* client's connection, and every callback reply read for it comes from it.
C5_NoCrossTalk ==
    DistinctIdentities =>
        \A c \in Conn :
            /\ \A i \in DOMAIN qlog[c] : qlog[c][i][2] = c
            /\ spc[c] \in WaitPcs => websocket[c] = c

\* Both handlers are blocked in a callback of their own query at once, under
\* different identities.
C5_Witness ==
    /\ DistinctIdentities
    /\ \A c \in Conn : spc[c] = "wait_plm" /\ Acknowledged(c)

\* C6: in every reachable state of the registry each connection is bound to
\* at most one client_id and each client_id to at most one connection.
C6_RegistryOneToOne ==
    \A c \in Conn : Cardinality({id \in HashableIds : clients[id] = c}) <= 1

\* C9: after a connection whose registration the server acknowledged has
\* closed and its handler has ended, the registry holds no entry that binds
\* a client_id it registered to it.
C9_ClosedUnregistered ==
    \A c \in Conn :
        spc[c] = "done" => \A id \in handshakes[c] : clients[id] # c

\* Handler c is about to call send_to_client or send_to_client_only with a
\* client_id that is not in the registry.
UnknownClientCall(c) ==
    /\ spc[c] \in {"hq_ack", "call_plm", "respond", "hq_except",
                   "call_add_numbers", "call_get_weather"}
    /\ Hashable(client_id[c])
    /\ clients[client_id[c]] = NoConn

\* The exception of the call of handler c is the unknown-client error: it is
\* in flight, or the function block caught and recorded it.
UnknownClientRaised(c) ==
    IF spc[c] \in {"call_add_numbers", "call_get_weather"}
    THEN Len(function_results'[c]) = Len(function_results[c]) + 1
    ELSE exc'[c] = "ValueError: Client not connected"

\* C10: send_to_client and send_to_client_only called with a client_id that
\* is not in the registry fail with the unknown-client error, send no frame
\* on any connection and leave the registry unchanged.
C10_UnknownClient ==
    [][\A c \in Conn :
         (UnknownClientCall(c) /\ spc'[c] # spc[c])
            => /\ UnknownClientRaised(c)
               /\ toClient' = toClient
               /\ clients' = clients]_vars

\* A call with an unregistered client_id has just failed.
C10_Witness ==
    \E c \in Conn :
        /\ spc[c] \in {"hc_except", "hq_except"}
        /\ exc[c] = "ValueError: Client not connected"

\* The result of the terminal message after the PLM's error reply.
ErrorResult == <<"Error: ", "error reply: boom">>

\* C1: with the connections staying open and the capabilities ending, every
\* query() call of a registered CamelClient eventually returns, once per
\* call, and never raises.
C1_QueryReturnsOnce ==
    /\ \A c \in Conn : InCall(c) ~> (cpc[c] = "idle")
    /\ [](\A c \in Conn :
            /\ cpc[c] # "raised"
            /\ returns[c] + (IF InCall(c) THEN 1 ELSE 0) = calls[c])

\* A client whose every query() call has returned.
C1_Witness ==
    \E c \in Conn : cpc[c] = "idle" /\ returns[c] = MaxQueries

\* The PLM or QLM of client c raises in this step.
CapabilityRaises(c) == capability[c] # "raised" /\ capability'[c] = "raised"

\* C7: when the client's PLM raises while a plm_call is served, the client
\* sends a plm_response that carries an error and keeps the connection open,
\* and the server then sends the terminal query_response whose result
\* describes the error, which the query() call returns.
C7_PlmRaises ==
    /\ [][\A c \in Conn :
            CapabilityRaises(c)
               => /\ Len(toServer'[c]) = Len(toServer[c]) + 1
                  /\ toServer'[c][Len(toServer'[c])].type = "plm_response"
                  /\ toServer'[c][Len(toServer'[c])].has_error
                  /\ open'[c]
                  /\ cpc'[c] = "loop"]_vars
    /\ \A c \in Conn :
         (capability[c] = "raised" /\ InCall(c))
            ~> (cpc[c] = "idle" /\ cresult[c] = ErrorResult)

\* A query() call during which the PLM raised has returned the error result.
C7_Witness ==
    \E c \in Conn :
        /\ capability[c] = "raised"
        /\ cpc[c] = "idle"
        /\ cresult[c] = ErrorResult

\* Handler c is suspended in send_to_client's recv on its own connection for
\* an acknowledged query, and the connection has closed.
BlockedOnClosed(c) ==
    /\ spc[c] \in WaitPcs
    /\ websocket[c] = c
    /\ Acknowledged(c)
    /\ ~open[c]

\* C8: when the client's connection closes after query_received was sent and
\* while the server waits in send_to_client for a callback reply, the pending
\* call fails with the transport's exception once no buffered frame is left,
\* and the handler task of that connection ends.
C8_ClosedWhileBlocked ==
    /\ [][\A c \in Conn :
            (BlockedOnClosed(c) /\ toServer[c] = <<>> /\ spc'[c] # spc[c])
               => IF spc[c] = "wait_plm"
                  THEN spc'[c] = "hq_except" /\ exc'[c] = "ConnectionClosed"
                  ELSE Len(function_results'[c]) = Len(function_results[c]) + 1]_vars
    /\ \A c \in Conn : BlockedOnClosed(c) ~> (spc[c] = "done")

\* The pending call_plm of an acknowledged query has failed with the
\* transport's exception on the closed connection.
C8_Witness ==
    \E c \in Conn :
        /\ spc[c] = "hq_except"
        /\ exc[c] = "ConnectionClosed"
        /\ websocket[c] = c
        /\ Acknowledged(c)
        /\ ~open[c]

\* The connect() call of client c returns normally in this step.
ConnectReturns(c) == op[c] = "connect" /\ InCall(c) /\ cpc'[c] = "idle"

\* The client of c sends a frame of type t in this step.
ClientSends(c, t) ==
    /\ toServer'[c] # <<>>
    /\ toServer'[c] # toServer[c]
    /\ toServer'[c][Len(toServer'[c])].type = t
    /\ Len(toServer'[c]) = Len(toServer[c]) + 1

\* C11: connect(max_retries) returns only with the client connected and the
\* registration handshake completed, for every max_retries >= 0; otherwise
\* it raises the failure of its last attempt.
C11_ConnectReturnsRegistered ==
    [][\A c \in Conn :
         ConnectReturns(c) => is_connected'[c] /\ handshake_done'[c]]_vars

\* C12: query() never sends a query frame on a connection whose registration
\* handshake has not completed, whatever connect attempts came before.
C12_QueryOnlyWhenRegistered ==
    [][\A c \in Conn : ClientSends(c, "query") => handshake_done'[c]]_vars

\* The client of c takes the next frame the peer sent in this step.
ReadsFrame(c) == toClient[c] # <<>> /\ toClient'[c] = Tail(toClient[c])

\* The client of c, in the receive loop, reads a frame of type t.
LoopReads(c, t) ==
    cpc[c] = "loop" /\ ReadsFrame(c) /\ Head(toClient[c]).type = t

\* C13: when the first frame after the query is not query_received, query()
\* raises and never enters the callback receive loop.
C13_AckRequired ==
    [][\A c \in Conn :
         (cpc[c] = "wait_ack" /\ ReadsFrame(c)
             /\ Head(toClient[c]).type # "query_received")
            => /\ cpc'[c] = "raised"
               /\ cexc'[c] \in {<<"Exception: Unexpected server response">>,
                                <<"JSONDecodeError">>}
               /\ returns'[c] = returns[c]]_vars

\* A query() call has failed on the frame that followed the query.
C13_Witness ==
    \E c \in Conn :
        /\ cpc[c] = "raised"
        /\ op[c] = "query"
        /\ cexc[c] = <<"Exception: Unexpected server response">>

\* C14: query() returns exactly the result field of the first query_response
\* received after the acknowledgement, empty or not.
C14_ReturnsResult ==
    [][\A c \in Conn :
         LoopReads(c, "query_response")
            => /\ cpc'[c] = "idle"
               /\ returns'[c] = returns[c] + 1
               /\ cresult'[c] = Head(toClient[c]).result]_vars

\* C15: when the connection closes after the acknowledgement and before a
\* query_response arrives, query() returns the sentinel instead of raising,
\* and the sentinel is returned in that case only.
C15_SentinelOnClose ==
    [][\A c \in Conn :
         /\ (returns'[c] # returns[c] /\ cresult'[c] = NoResponse)
               => ~open[c] /\ toClient[c] = <<>>
         /\ (cpc[c] = "loop" /\ ~open[c] /\ cpc'[c] = "raised")
               => LoopReads(c, "error")]_vars

\* C16: an error message read in the receive loop makes query() raise an
\* error that carries the server's text; the call returns no value and does
\* not go on waiting.
C16_ErrorAborts ==
    [][\A c \in Conn :
         LoopReads(c, "error")
            => /\ cpc'[c] = "raised"
               /\ cexc'[c] = <<"Server error: ", Head(toClient[c]).message>>
               /\ returns'[c] = returns[c]
               /\ cresult'[c] = cresult[c]]_vars

\* A query() call was aborted by the server's error message.
C16_Witness ==
    \E c \in Conn :
        /\ cpc[c] = "raised"
        /\ cexc[c] = <<"Server error: ", "Client not registered">>

\* C17: a function_call read in the receive loop is answered with exactly
\* one function_response.
C17_FunctionCallAnswered ==
    [][\A c \in Conn :
         (LoopReads(c, "function_call") /\ open[c])
            => ClientSends(c, "function_response")]_vars

\* C18: a qlm_call read in the receive loop is answered with exactly one
\* qlm_response, with result when the QLM returns its value and with error
\* when it raises, and the loop goes on.
C18_QlmAnswered ==
    [][\A c \in Conn :
         (LoopReads(c, "qlm_call") /\ open[c]
             /\ RequestFault(Head(toClient[c])) = ""
             /\ capability'[c] \in Outcomes)
            => /\ ClientSends(c, "qlm_response")
               /\ toServer'[c][Len(toServer'[c])].has_error
                     = (capability'[c] = "raised")
               /\ cpc'[c] = "loop"]_vars

\* The client has answered a qlm_call with an error and waits on.
C18_Witness ==
    \E c \in Conn :
        /\ cpc[c] = "loop"
        /\ capability[c] = "raised"
        /\ toServer[c] # <<>>
        /\ toServer[c][1].type = "qlm_response"
        /\ toServer[c][1].has_error

\* C19: no local fault while a plm_call or qlm_call is served ends the
\* receive loop: the request is answered, with an error payload on a fault,
\* and the loop keeps waiting.
C19_FaultsAnswered ==
    [][\A c \in Conn : \A t \in {"plm_call", "qlm_call"} :
         (LoopReads(c, t) /\ open[c])
            => /\ cpc'[c] = "loop"
               /\ ClientSends(c, ResponseType(t))]_vars

\* Handler c reads a frame that is not JSON from its open connection.
ReadsInvalidJson(c) ==
    /\ spc[c] = "recv"
    /\ toServer[c] # <<>>
    /\ Head(toServer[c]) = InvalidJson
    /\ toServer'[c] = Tail(toServer[c])
    /\ open[c]

\* C20: an unparseable frame read in the connection loop, before or after
\* registration, is answered with an error reply; the connection's
\* registration state and the registry stay as they are and the connection
\* stays open, its loop reading on.
C20_InvalidJsonTolerated ==
    [][\A c \in Conn :
         ReadsInvalidJson(c)
            => /\ Len(toClient'[c]) = Len(toClient[c]) + 1
               /\ toClient'[c][Len(toClient'[c])] = ErrorMsg("Invalid JSON")
               /\ clients' = clients
               /\ client_id'[c] = client_id[c]
               /\ handshakes' = handshakes
               /\ open'[c]
               /\ spc'[c] = "recv"]_vars

\* A registered connection got the error reply and its handler reads on.
C20_Witness ==
    \E c \in Conn :
        /\ handshakes[c] # {}
        /\ open[c]
        /\ spc[c] = "recv"
        /\ toClient[c] # <<>>
        /\ toClient[c][Len(toClient[c])] = ErrorMsg("Invalid JSON")

CallbackFailed(c) ==
    \/ spc[c] = "hq_except"
    \/ \E i \in DOMAIN function_results[c] : function_results[c][i][2] = "failed"

\* C22: once a callback of a query has failed, the only frame still sent for
\* that query is the error-flavoured terminal query_response: no further
\* callback is issued and no success-flavoured result is sent.
C22_FailureEndsQuery ==
    [][\A c \in Conn :
         (CallbackFailed(c) /\ Len(qlog'[c]) > Len(qlog[c]))
            => /\ spc[c] = "hq_except"
               /\ qlog'[c][Len(qlog'[c])][1] = "query_response"]_vars

\* Handler c reads a query message from its open connection, on which a
\* registration was acknowledged.
QueryRead(c) ==
    /\ spc[c] = "recv"
    /\ toServer[c] # <<>>
    /\ Head(toServer[c]).type = "query"
    /\ toServer'[c] = Tail(toServer[c])
    /\ handshakes[c] # {}
    /\ open[c]

\* C23: a query message read on a registered connection is passed to the
\* query handler, once, with a client_id that connection registered and the
\* message's data, and every frame the handler sends for that client_id goes
\* to that connection.
C23_QueryRouted ==
    /\ [][\A c \in Conn :
            QueryRead(c)
               => /\ spc'[c] = "handle_query"
                  /\ data'[c] = Head(toServer[c])
                  /\ client_id[c] \in handshakes[c]]_vars
    /\ [](\A c \in Conn : \A i \in DOMAIN qlog[c] : qlog[c][i][2] = c)

\* C24: on one connection at most one query is in flight: a query starts
\* from the connection loop only, and the loop reads on after an
\* acknowledged query only when that query's terminal message was sent on
\* the connection (on a failed connection the loop ends instead).
C24_OneQueryInFlight ==
    [][\A c \in Conn :
         /\ spc'[c] = "handle_query" => spc[c] \in {"recv", "handle_query"}
         /\ (QueryEnded(c) /\ Acknowledged(c) /\ spc'[c] = "recv")
               => CountTo(qlog[c], "query_response", c) >= 1]_vars

\* This step is a disconnect() call of client c.
DisconnectCall(c) == disconnects'[c] # disconnects[c]

\* C25: disconnect() raises nothing, whether the client is connected, was
\* disconnected before or never connected; after it the client reports not
\* connected, and on a client that holds no websocket it changes nothing
\* of the connection.
C25_DisconnectIdempotent ==
    /\ [][\A c \in Conn :
            DisconnectCall(c)
               => /\ ~is_connected'[c]
                  /\ cpc'[c] # "raised"
                  /\ ~is_connected[c]
                        => /\ open' = open
                           /\ toServer' = toServer
                           /\ cpc'[c] \in {cpc[c], "idle"}]_vars
    /\ [](\A c \in Conn : op[c] = "disconnect" => ~is_connected[c])

\* disconnect() was called twice on a client that never connected.
C25_Witness ==
    \E c \in Conn :
        /\ disconnects[c] = MaxDisconnects
        /\ op[c] = "disconnect"
        /\ cpc[c] = "new"

\* C26: a conversation message encoded and decoded again has the role and
\* content it had, and the list of messages the client decodes from a
\* plm_call is the list the server encoded, in the same order.
C26_RoundTrip ==
    /\ \A i \in DOMAIN messages : from_dict(to_dict(messages[i])) = messages[i]
    /\ mpc = "decoded" => decoded = messages

\* A decoded conversation of two different messages, one with a quote and
\* a backslash in its content.
C26_Witness ==
    /\ mpc = "decoded"
    /\ Len(messages) = 2
    /\ messages[1] # messages[2]
    /\ \E i \in DOMAIN messages : messages[i][2] = <<"\"", "\\">>

\* C27: for every acknowledged query exactly one plm_call is issued, to the
\* client that sent the query, and before any function_call of the query.
C27_OnePlmCallFirst ==
    \A c \in Conn :
        /\ CountType(qlog[c], "plm_call") <= 1
        /\ \A i \in DOMAIN qlog[c] :
             qlog[c][i][1] = "function_call"
                => \E j \in 1..(i - 1) : qlog[c][j][1] = "plm_call"
        /\ (Acknowledged(c) /\ QueryEnded(c) /\ open[c])
              => CountTo(qlog[c], "plm_call", c) = 1

\* The metadata stored under the client_id of handler c names fn.
MetadataNames(c, fn) ==
    /\ Hashable(client_id[c])
    /\ metadata[client_id[c]] # NoRuntime
    /\ fn \in metadata[client_id[c]][1]

\* C28: per query at most two function_call requests are issued, add_numbers
\* first, each for a function the stored metadata names; no qlm_call; at
\* most three callbacks in total.
C28_BoundedCallbacks ==
    \A c \in Conn :
        /\ CountType(qlog[c], "function_call") <= 2
        /\ CountType(qlog[c], "qlm_call") = 0
        /\ Cardinality({i \in DOMAIN qlog[c] : qlog[c][i][1] \in CallbackTypes}) <= 3
        /\ spc[c] = CallPc("add_numbers") => CountType(qlog[c], "function_call") = 0
        /\ \A fn \in FunctionNames :
             spc[c] \in {CallPc(fn), WaitPc(fn)} => MetadataNames(c, fn)

\* A query for which the decision step and both functions were called.
C28_Witness ==
    \E c \in Conn :
        /\ CountType(qlog[c], "plm_call") = 1
        /\ CountType(qlog[c], "function_call") = 2

\* Handler c, waiting at pc for a reply, takes the frame r in this step.
ReplyRead(c, pc, r) ==
    /\ spc[c] = pc
    /\ websocket[c] \in Conn
    /\ toServer[websocket[c]] # <<>>
    /\ r = Head(toServer[websocket[c]])
    /\ spc'[c] # spc[c]

\* The frame r is a reply of type t without an error field.
GoodReply(r, t) == r.type = t /\ ~r.has_error

\* C29: call_plm, call_qlm and call_function return a value only for a next
\* frame of the paired response type without an error field; every other
\* reply makes the call raise and is never taken as a result.
C29_RepliesChecked ==
    /\ [][\A c \in Conn : \A r \in {Head(toServer[w]) : w \in {v \in Conn : toServer[v] # <<>>}} :
            /\ ReplyRead(c, "wait_plm", r)
                  => IF GoodReply(r, "plm_response")
                     THEN code'[c] = r.value /\ spc'[c] # "hq_except"
                     ELSE code'[c] = code[c] /\ spc'[c] = "hq_except"
            /\ \A fn \in FunctionNames :
                 ReplyRead(c, WaitPc(fn), r)
                    => function_results'[c] = Append(function_results[c],
                          IF GoodReply(r, "function_response")
                          THEN <<fn, r.value>> ELSE <<fn, "failed">>)]_vars
    /\ [](\A c \in Conn : \A i \in DOMAIN toServer[c] :
            ReplyFault(toServer[c][i], "qlm_response") = ""
               => GoodReply(toServer[c][i], "qlm_response"))

\* call_plm has raised on a reply of another type.
C29_Witness ==
    \E c \in Conn :
        /\ spc[c] = "hq_except"
        /\ exc[c] = "ValueError: unexpected response type"

\* C30: the server changes its per-client state for a query only after it
\* has sent query_received for it, so a query that is rejected without an
\* acknowledgement leaves that state as it was.
C30_AckBeforeState ==
    [][\A id \in HashableIds :
         metadata'[id] # metadata[id]
            => \E c \in Conn : client_id[c] = id /\ Acknowledged(c)]_vars

\* Handler c takes the frame m from its open connection in this step.
FrameRead(c, m) ==
    /\ spc[c] = "recv"
    /\ toServer[c] # <<>>
    /\ m = Head(toServer[c])
    /\ toServer'[c] = Tail(toServer[c])
    /\ open[c]

\* The message m is answered with a protocol error by handler c: a query
\* before registration, or a message of an unknown type.
Violation(c, m) ==
    \/ m.type = "query" /\ ~Registered(c)
    \/ m.type \notin {"register", "query", "<invalid json>"}

\* C31: a protocol violation alone does not end the connection: the error
\* reply leaves the connection open, the registry as it was and the handler
\* reading on, and a valid register read on the same connection after a
\* rejection is entered in the registry and acknowledged.
C31_ViolationKeepsConnection ==
    [][\A c \in Conn : \A m \in RawFrames \cup PlainFrames \cup UNION {RawReplies(t) : t \in CallbackTypes} :
         /\ (FrameRead(c, m) /\ Violation(c, m))
               => /\ open' = open
                  /\ clients' = clients
                  /\ spc'[c] = "recv"
                  /\ toClient'[c] # toClient[c]
                  /\ toClient'[c][Len(toClient'[c])].type = "error"
         /\ (FrameRead(c, m) /\ rejected[c] /\ m.type = "register"
                /\ Hashable(m.client_id))
               => /\ open'[c]
                  /\ clients'[m.client_id] = c
                  /\ spc'[c] = "recv"
                  /\ toClient'[c] = Append(toClient[c], RegisteredMsg(m.client_id))]_vars

\* A connection that was sent a protocol error is open, registered and
\* acknowledged.
C31_Witness ==
    \E c \in Conn :
        /\ rejected[c]
        /\ open[c]
        /\ "a" \in handshakes[c]
        /\ clients["a"] = c
        /\ spc[c] = "recv"

\* Client c has had a query() call return and its next call is waiting for
\* the acknowledgement on the same, open connection.
SecondQuery(c) ==
    /\ cpc[c] = "wait_ack"
    /\ returns[c] >= 1
    /\ calls[c] > returns[c]
    /\ open[c]

\* C32: after the terminal message of a query the connection is still
\* registered: the next query on it is handed to the query handler and
\* acknowledged with query_received on that connection, which is what the
\* client reads next.
C32_StillRegistered ==
    [][\A c \in Conn :
         /\ (SecondQuery(c) /\ spc[c] = "recv" /\ spc'[c] # "recv")
               => spc'[c] = "handle_query"
         /\ (SecondQuery(c) /\ spc[c] = "hq_ack" /\ spc'[c] # "hq_ack")
               => /\ spc'[c] = "call_plm"
                  /\ toClient'[c] = Append(toClient[c], QueryReceivedMsg)
         /\ (SecondQuery(c) /\ cpc'[c] # "wait_ack") => cpc'[c] = "loop"]_vars

\* The connect() call of client c is in progress.
Connecting(c) == cpc[c] \in {"connecting", "wait_registered"}

\* C33: connect(max_retries) ends at the first successful handshake; it
\* starts another attempt only while fewer than max_retries attempts were
\* made, sleeps one unit before each retry, and does not sleep after the
\* last failed attempt.
C33_BoundedRetries ==
    /\ [](\A c \in Conn :
            /\ sleeps[c] = attempt[c]
            /\ (Connecting(c) /\ max_retries[c] > 0) => attempt[c] < max_retries[c]
            /\ (cpc[c] = "raised" /\ op[c] = "connect")
                  => attempt[c] = max_retries[c] - 1)
    /\ [][\A c \in Conn :
            (cpc[c] = "wait_registered" /\ toClient[c] # <<>>
                /\ RegisterFault(Head(toClient[c])) = ""
                /\ cpc'[c] # cpc[c])
               => /\ ~Connecting(c)'
                  /\ UNCHANGED <<attempt, sleeps>>]_vars

\* connect(2) has raised after two failed attempts and one backoff.
C33_Witness ==
    \E c \in Conn :
        /\ cpc[c] = "raised"
        /\ op[c] = "connect"
        /\ max_retries[c] = MaxRetryArg
        /\ attempt[c] = MaxRetryArg - 1
        /\ sleeps[c] = MaxRetryArg - 1

\* Handler c is handling a query that carries no function metadata, under a
\* client_id whose earlier connection d has closed and been cleaned up.
QueryAfterClose(c, d) ==
    /\ c # d
    /\ spc[d] = "done"
    /\ client_id[c] \in handshakes[d]
    /\ client_id[c] \in handshakes[c]
    /\ data[c].type = "query"
    /\ data[c].functions_runtime = NoRuntime

\* C34: when a connection has closed the server holds nothing under its
\* client_id any more, so a query without function metadata from a client
\* that registers the same client_id afterwards triggers no function_call.
C34_ForgottenOnClose ==
    \A c, d \in Conn :
        QueryAfterClose(c, d)
           => /\ \A fn \in FunctionNames : ~HasFunction(c, fn)
              /\ CountType(qlog[c], "function_call") = 0

\* The finally block of handler c runs in this step.
CleanupStep(c) == spc[c] = "finally" /\ spc'[c] = "done"

\* C35: when a client reconnects under the client_id of its closed
\* connection, the cleanup of the old connection, whenever it runs, removes
\* no registry entry that is bound to another, live connection: the
\* client_id stays bound to the new connection.
C35_CleanupSparesLive ==
    [][\A c \in Conn : \A id \in HashableIds :
         (CleanupStep(c) /\ ~open[c] /\ clients[id] \notin {NoConn, c}
             /\ open[clients[id]])
            => clients'[id] = clients[id]]_vars

\* Handler h waits in send_to_client for a reply on the open connection c,
\* the client of c waits in its receive loop, and no frame is in transit on
\* c in either direction.
MutualWait(h, c) ==
    /\ open[c]
    /\ spc[h] \in WaitPcs
    /\ websocket[h] = c
    /\ cpc[c] = "loop"
    /\ toClient[c] = <<>>
    /\ toServer[c] = <<>>

\* C36: in no reachable state is the server blocked in send_to_client for a
\* callback reply while the client of that open connection is blocked in
\* its receive loop and no frame is in transit, also for queries handled
\* with function metadata that names add_numbers or get_weather.
C36_NoMutualWait ==
    \A h, c \in Conn : ~MutualWait(h, c)

\* No query() call of client c is in progress on its open connection.
BetweenCalls(c) == cpc[c] \in {"idle", "raised"} /\ open[c]

\* C39: whenever a query() call has ended, by returning or by raising, and
\* the connection is open, no handler is left waiting in send_to_client for
\* a callback reply on that connection, so the frame of the next query()
\* call is read by handle_client as a new query.
C39_NoStaleWait ==
    \A c, h \in Conn :
        BetweenCalls(c) => ~(spc[h] \in WaitPcs /\ websocket[h] = c)

\* C37: every message the server sends for a query (the acknowledgement,
\* the callback requests, the terminal message) goes to the connection the
\* query was read from, and every reply awaited for it is awaited there,
\* also when another connection registers the same client_id meanwhile.
C37_RepliesOnOwnConnection ==
    \A c \in Conn :
        /\ \A i \in DOMAIN qlog[c] : qlog[c][i][2] = c
        /\ spc[c] \in WaitPcs => websocket[c] = c

\* Handler c sends registered for client_id id in this step.
RegisteredSent(c, id) ==
    toClient'[c] = Append(toClient[c], RegisteredMsg(id))

\* C38: when the server replies registered to a connection, the registry
\* holds the acknowledged client_id, and a query that follows on the
\* connection is handed to the query handler, for every client_id string,
\* the empty one included.
C38_AcknowledgedIsRegistered ==
    [][\A c \in Conn :
         /\ \A id \in StringIds : RegisteredSent(c, id) => clients'[id] = c
         /\ (QueryRead(c) /\ client_id[c] \in StringIds
                /\ client_id[c] \in handshakes[c])
               => spc'[c] = "handle_query"]_vars

====
